---- MODULE Spec2Model ----
(***************************************************************************)
(* Verification model of the workspace Folder of the language server       *)
(* (package workspace: Folder, its diagnostic cache, dedup, trust gate,    *)
(* severity aggregation and publishing).                                   *)
(*                                                                         *)
(* Strings that the code takes apart (paths, issue ids, unique ids) are    *)
(* sequences of one-character strings, so that strings.HasPrefix,          *)
(* strings.TrimSuffix, strings.Contains and "+" are computed, not assumed.  *)
(* Strings the code only compares or uses as map keys (products,           *)
(* severities, issue types) are TLA+ strings.                              *)
(***************************************************************************)
EXTENDS Integers, Sequences, FiniteSets, TLC

(***************************************************************************)
(* Bounds of the model.                                                    *)
(***************************************************************************)
\* longest Issues list of one ScanData handed to processResults
MaxBatch == 2
\* number of scan-completion callbacks that may run interleaved
NumCallbacks == 2
\* longest list of issues FilterIssues is applied to
MaxFilterInput == 4

(***************************************************************************)
(* Strings.                                                                *)
(***************************************************************************)
HasPrefix(s, prefix) ==
    /\ Len(prefix) <= Len(s)
    /\ SubSeq(s, 1, Len(prefix)) = prefix

HasSuffix(s, suffix) ==
    /\ Len(suffix) <= Len(s)
    /\ SubSeq(s, Len(s) - Len(suffix) + 1, Len(s)) = suffix

TrimSuffix(s, suffix) ==
    IF HasSuffix(s, suffix) THEN SubSeq(s, 1, Len(s) - Len(suffix)) ELSE s

Contains(s, substr) ==
    \E i \in 0..(Len(s) - Len(substr)) : SubSeq(s, i + 1, i + Len(substr)) = substr

(***************************************************************************)
(* The values the model draws its inputs from.                             *)
(***************************************************************************)
\* "/p" and "/o": the folders a user may have marked as trusted
TrustedRoot == <<"/", "p">>
OtherRoot == <<"/", "o">>
\* "/p/s/" and "/p/s": the paths NewFolder is called with
FolderPathInputs == { <<"/", "p", "/", "s", "/">>, <<"/", "p", "/", "s">> }
\* "/p/s/a" and "/p/s/b": the files issues are reported for
FileA == <<"/", "p", "/", "s", "/", "a">>
FileB == <<"/", "p", "/", "s", "/", "b">>
FilePaths == {FileA, FileB}

Critical == "critical"
High == "high"
Medium == "medium"
Low == "low"
Severities == {Critical, High, Medium, Low}

Products == {"", "oss"}
FilterableIssueTypes == {"Open Source", "Code Security", "Code Quality"}

Unscanned == 0
Scanned == 1

\* Two findings of the same identity i1|/p/s/a that differ in content, and a
\* finding with the same ID in another file.
IssueA1 == [ID |-> <<"i", "1">>, AffectedFilePath |-> FileA, Severity |-> Critical,
            Product |-> "oss", IssueType |-> "Open Source"]
IssueA1Low == [ID |-> <<"i", "1">>, AffectedFilePath |-> FileA, Severity |-> Low,
               Product |-> "", IssueType |-> ""]
IssueB1 == [ID |-> <<"i", "1">>, AffectedFilePath |-> FileB, Severity |-> Medium,
            Product |-> "code", IssueType |-> "Code Quality"]
IssueUniverse == {IssueA1, IssueA1Low, IssueB1}

\* all sequences over S of length at most n
SeqsUpTo(S, n) == UNION { [1..k -> S] : k \in 0..n }

\* the ScanData a scanner may call back with: a result, or an error (with or
\* without issues beside it)
ScanDatas ==
    [Product : Products, Issues : SeqsUpTo(IssueUniverse, MaxBatch), Err : {FALSE}]
    \cup [Product : Products, Issues : {<<>>, <<IssueA1>>}, Err : {TRUE}]

AllVisible == [Critical |-> TRUE, High |-> TRUE, Medium |-> TRUE, Low |-> TRUE]
AllTypes == [t \in FilterableIssueTypes |-> TRUE]

\* the configurations config.CurrentConfig() may hold: trust feature off;
\* trust feature on with the folder under a trusted path, and a narrower
\* filter; trust feature on with the folder under no trusted path
Configs ==
    { [trustEnabled |-> FALSE, trustedFolders |-> {},
       filterSeverity |-> AllVisible, displayableIssueTypes |-> AllTypes],
      [trustEnabled |-> TRUE, trustedFolders |-> {TrustedRoot},
       filterSeverity |-> [Critical |-> TRUE, High |-> TRUE, Medium |-> FALSE, Low |-> FALSE],
       displayableIssueTypes |-> [AllTypes EXCEPT !["Code Quality"] = FALSE]],
      [trustEnabled |-> TRUE, trustedFolders |-> {OtherRoot},
       filterSeverity |-> AllVisible, displayableIssueTypes |-> AllTypes] }

(***************************************************************************)
(* State.                                                                  *)
(***************************************************************************)
VARIABLES
    path,          \* Folder.path
    status,        \* Folder.status
    cache,         \* Folder.documentDiagnosticCache: a function file path -> issues
    config,        \* config.CurrentConfig(), read live
    hasInlineValues, \* whether Folder.scanner is a vulnmap.InlineValueProvider
    out,           \* what the last operation did to its collaborators
    pc,            \* position of each interleaved processResults callback
    local          \* the local variables of each interleaved callback

vars == <<path, status, cache, config, hasInlineValues, out, pc, local>>

Callbacks == 1..NumCallbacks

\* the empty map
EmptyMap == [x \in {} |-> <<>>]

NoOut ==
    [op |-> "NewFolder", arg |-> <<>>, trusted |-> TRUE,
     scanCalls |-> <<>>, processed |-> <<>>, sent |-> <<>>,
     inlineCleared |-> <<>>, analytics |-> <<>>, SeverityCount |-> EmptyMap,
     result |-> <<>>]

IdleLocal == [data |-> [Product |-> "", Issues |-> <<>>, Err |-> FALSE],
              dedupMap |-> {}, cachedIssues |-> <<>>, SeverityCount |-> EmptyMap]

(***************************************************************************)
(* The diagnostic cache (xsync.MapOf[string, []Issue]).  Every slice the   *)
(* code stores is non-nil, so a nil result of Load means an absent key.    *)
(***************************************************************************)
\* Load that answers with the entry of some key of the map, whatever the key asked for
LoadSomeEntry(c, key) ==
    IF DOMAIN c # {} THEN [value |-> c[CHOOSE k \in DOMAIN c : TRUE], ok |-> TRUE]
                     ELSE [value |-> <<>>, ok |-> FALSE]

Load(c, key) ==
    IF key \in DOMAIN c THEN [value |-> c[key], ok |-> TRUE]
                        ELSE [value |-> <<>>, ok |-> FALSE]

Store(c, key, value) ==
    [k \in (DOMAIN c) \cup {key} |-> IF k = key THEN value ELSE c[k]]

Delete(c, key) ==
    [k \in (DOMAIN c) \ {key} |-> c[k]]

\* the orders in which a range over a map with the keys S may visit them
Orders(S) ==
    { o \in [1..Cardinality(S) -> S] : \A i, j \in 1..Cardinality(S) : i # j => o[i] # o[j] }

RECURSIVE Flatten(_)
Flatten(seqs) ==
    IF seqs = <<>> THEN <<>> ELSE Head(seqs) \o Flatten(Tail(seqs))

(***************************************************************************)
(* Dedup engine.                                                           *)
(***************************************************************************)
getUniqueIssueID(issue) ==
    issue.ID \o <<"|">> \o issue.AffectedFilePath

\* createDedupMap that knows no cached issue
createDedupMapOfNothing(c) == {}

createDedupMap(c) ==
    UNION { { getUniqueIssueID(c[key][n]) : n \in 1..Len(c[key]) } : key \in DOMAIN c }

(***************************************************************************)
(* Severity/product aggregator.  A SeverityCount map is a function from    *)
(* the products it has a key for to the four counters.                     *)
(***************************************************************************)
ZeroCount == [Critical |-> 0, High |-> 0, Medium |-> 0, Low |-> 0]

\* initializeSeverityCountForProduct that keeps an empty product as the key
initializeSeverityCountForProductAsGiven(sev, productType) ==
    IF productType \in DOMAIN sev THEN sev ELSE Store(sev, productType, ZeroCount)

initializeSeverityCountForProduct(sev, productType) ==
    LET p == IF productType = "" THEN "unknown" ELSE productType
    IN  IF p \in DOMAIN sev THEN sev ELSE Store(sev, p, ZeroCount)

incrementSeverityCount(sev, issue) ==
    LET issueProduct == IF issue.Product = "" THEN "unknown" ELSE issue.Product
        initialized == initializeSeverityCountForProduct(sev, issueProduct)
        severityCount == initialized[issueProduct]
        counted ==
            CASE issue.Severity = Critical -> [severityCount EXCEPT !.Critical = @ + 1]
              [] issue.Severity = High -> [severityCount EXCEPT !.High = @ + 1]
              [] issue.Severity = Medium -> [severityCount EXCEPT !.Medium = @ + 1]
              [] issue.Severity = Low -> [severityCount EXCEPT !.Low = @ + 1]
              [] OTHER -> severityCount
    IN  Store(initialized, issueProduct, counted)

\* data.SeverityCount[data.Product] of a Go map: the zero value for a missing key
CountOf(sev, product) ==
    IF product \in DOMAIN sev THEN sev[product] ELSE ZeroCount

\* sendAnalytics: the SeverityCount map it leaves in the ScanData, and the
\* events handed to analytics.SendAnalyticsToAPI
sendAnalytics(data, sev) ==
    LET initialized == initializeSeverityCountForProduct(sev, data.Product)
    IN  [SeverityCount |-> initialized,
         analytics |-> IF data.Product = "" \/ data.Err
                       THEN <<>>
                       ELSE << [ScanType |-> data.Product,
                                UniqueIssueCount |-> CountOf(initialized, data.Product)] >>]

(***************************************************************************)
(* Filter engine.                                                          *)
(***************************************************************************)
GetFilterableIssueType(issue) == issue.IssueType

\* isVisibleSeverity that reads the High setting for a Medium issue
isVisibleSeverityMediumAsHigh(issue) ==
    CASE issue.Severity = Critical -> config.filterSeverity.Critical
      [] issue.Severity = High -> config.filterSeverity.High
      [] issue.Severity = Medium -> config.filterSeverity.High
      [] issue.Severity = Low -> config.filterSeverity.Low
      [] OTHER -> FALSE

isVisibleSeverity(issue) ==
    CASE issue.Severity = Critical -> config.filterSeverity.Critical
      [] issue.Severity = High -> config.filterSeverity.High
      [] issue.Severity = Medium -> config.filterSeverity.Medium
      [] issue.Severity = Low -> config.filterSeverity.Low
      [] OTHER -> FALSE

\* supportedIssueTypes[t] of a Go map[FilterableIssueType]bool
Supported(supportedIssueTypes, t) ==
    t \in DOMAIN supportedIssueTypes /\ supportedIssueTypes[t]

\* FilterIssues that shows every issue type, whatever the configuration enables
FilterIssuesOfEveryType(issues, supportedIssueTypes) ==
    LET keep(issue) == isVisibleSeverity(issue)
    IN  SelectSeq(issues, keep)

FilterIssues(issues, supportedIssueTypes) ==
    LET keep(issue) ==
            isVisibleSeverity(issue)
            /\ Supported(supportedIssueTypes, GetFilterableIssueType(issue))
    IN  SelectSeq(issues, keep)

\* filterCachedDiagnostics that leaves out the files whose issues all filter out
filterCachedDiagnosticsDroppingEmpty(c) ==
    LET shown == { filePath \in DOMAIN c :
                     FilterIssues(c[filePath], config.displayableIssueTypes) # <<>> }
    IN  [filePath \in shown |-> FilterIssues(c[filePath], config.displayableIssueTypes)]

filterCachedDiagnostics(c) ==
    [filePath \in DOMAIN c |-> FilterIssues(c[filePath], config.displayableIssueTypes)]

(***************************************************************************)
(* Publisher.  A message to a collaborator is a record                     *)
(* [kind, target, product, payload]; a range over a Go map visits the keys *)
(* in an unspecified order, so each loop yields one sequence per order.    *)
(***************************************************************************)
PathToUri(p) == <<"file://">> \o p

ToDiagnostics(issues) ==
    [n \in 1..Len(issues) |-> [Code |-> issues[n].ID, Severity |-> issues[n].Severity]]

ToHoversDocument(p, issues) ==
    [n \in 1..Len(issues) |-> [Id |-> issues[n].ID]]

\* notifier.Send(lsp.PublishDiagnosticsParams{URI, Diagnostics})
DiagnosticsMsg(p, diagnostics) ==
    [kind |-> "publishDiagnostics", target |-> PathToUri(p), product |-> "",
     payload |-> diagnostics]

sendDiagnosticsForFile(p, issues) == DiagnosticsMsg(p, ToDiagnostics(issues))

sendHoversForFile(p, issues) ==
    [kind |-> "hover", target |-> PathToUri(p), product |-> "",
     payload |-> ToHoversDocument(p, issues)]

sendDiagnostics(issuesByFile) ==
    { [n \in 1..Len(o) |-> sendDiagnosticsForFile(o[n], issuesByFile[o[n]])] :
        o \in Orders(DOMAIN issuesByFile) }

sendHovers(issuesByFile) ==
    { [n \in 1..Len(o) |-> sendHoversForFile(o[n], issuesByFile[o[n]])] :
        o \in Orders(DOMAIN issuesByFile) }

sendScanResults(processedProduct, issuesByFile) ==
    { LET productIssues == Flatten([n \in 1..Len(o) |-> issuesByFile[o[n]]])
      IN  IF processedProduct # ""
          THEN [kind |-> "SendSuccess", target |-> path,
                product |-> processedProduct, payload |-> productIssues]
          ELSE [kind |-> "SendSuccessForAllProducts", target |-> path,
                product |-> "", payload |-> productIssues] :
        o \in Orders(DOMAIN issuesByFile) }

\* scanNotifier.SendError(product, folderPath)
ScanErrorMsg(product) ==
    [kind |-> "SendError", target |-> path, product |-> product, payload |-> <<>>]

\* publishDiagnostics that sends the hovers before the scan result
publishDiagnosticsHoversSecond(product, issuesByFile) ==
    { d \o h \o <<s>> : d \in sendDiagnostics(issuesByFile),
                        s \in sendScanResults(product, issuesByFile),
                        h \in sendHovers(issuesByFile) }

publishDiagnostics(product, issuesByFile) ==
    { d \o <<s>> \o h : d \in sendDiagnostics(issuesByFile),
                        s \in sendScanResults(product, issuesByFile),
                        h \in sendHovers(issuesByFile) }

FilterAndPublishCachedDiagnostics(c, product) ==
    publishDiagnostics(product, filterCachedDiagnostics(c))

(***************************************************************************)
(* processResults, the scan completion callback, run without interleaving. *)
(***************************************************************************)
\* the loop body that stores a new issue as the whole entry of its file
storeOnlyNewIssue(cachedIssues, issue, dedupMap) ==
    IF getUniqueIssueID(issue) \notin dedupMap
    THEN <<issue>>
    ELSE cachedIssues

\* the loop body that puts a new issue in front of the entry of its file
putNewIssueInFront(cachedIssues, issue, dedupMap) ==
    IF getUniqueIssueID(issue) \notin dedupMap
    THEN <<issue>> \o cachedIssues
    ELSE cachedIssues

\* one round of the loop over scanData.Issues, for the issue `issue`, with
\* the entry `cachedIssues` it loaded
appendIfNew(cachedIssues, issue, dedupMap) ==
    IF getUniqueIssueID(issue) \notin dedupMap
    THEN Append(cachedIssues, issue)
    ELSE cachedIssues

\* countIfNew that counts every issue of the batch, known or new
countEveryIssue(sev, issue, dedupMap) == incrementSeverityCount(sev, issue)

countIfNew(sev, issue, dedupMap) ==
    IF getUniqueIssueID(issue) \notin dedupMap
    THEN incrementSeverityCount(sev, issue)
    ELSE sev

RECURSIVE updateCache(_, _, _, _)
updateCache(c, sev, issues, dedupMap) ==
    IF issues = <<>>
    THEN [cache |-> c, SeverityCount |-> sev]
    ELSE LET issue == Head(issues)
             loaded == Load(c, issue.AffectedFilePath)
             cachedIssues == IF loaded.ok THEN loaded.value ELSE <<>>
         IN  updateCache(Store(c, issue.AffectedFilePath,
                               appendIfNew(cachedIssues, issue, dedupMap)),
                         countIfNew(sev, issue, dedupMap),
                         Tail(issues), dedupMap)

\* processError without its return: the issues of the failed scan are cached
processErrorFallsThrough(c, scanData) ==
    { [cache |-> updateCache(c, EmptyMap, scanData.Issues, createDedupMap(c)).cache,
       sent |-> <<ScanErrorMsg(scanData.Product)>>,
       analytics |-> <<>>, SeverityCount |-> EmptyMap] }

\* the branch of a ScanData with an error: one failure notification, no more
processError(c, scanData) ==
    { [cache |-> c, sent |-> <<ScanErrorMsg(scanData.Product)>>,
       analytics |-> <<>>, SeverityCount |-> EmptyMap] }

\* the outcomes of processResults(scanData) on the cache c
processResults(c, scanData) ==
    IF scanData.Err
    THEN processError(c, scanData)
    ELSE LET updated == updateCache(c, EmptyMap, scanData.Issues, createDedupMap(c))
             sentAnalytics == sendAnalytics(scanData, updated.SeverityCount)
         IN  { [cache |-> updated.cache, sent |-> m,
                analytics |-> sentAnalytics.analytics,
                SeverityCount |-> sentAnalytics.SeverityCount] :
                 m \in FilterAndPublishCachedDiagnostics(updated.cache, scanData.Product) }

(***************************************************************************)
(* Trust gate and scan.                                                    *)
(***************************************************************************)
\* IsTrusted that accepts every folder once any trusted folder is configured
IsTrustedAnyConfigured ==
    \/ ~config.trustEnabled
    \/ config.trustedFolders # {}

\* IsTrusted that checks the trusted folders also with the trust feature off
IsTrustedIgnoringFeatureFlag ==
    \E trusted \in config.trustedFolders : HasPrefix(path, trusted)

IsTrusted ==
    \/ ~config.trustEnabled
    \/ \E trusted \in config.trustedFolders : HasPrefix(path, trusted)

\* a cache lookup that never hits
IsCachedNever(c, file) == FALSE

\* DocumentDiagnosticsFromCache(file) != nil
IsCached(c, file) == Load(c, file).ok

\* the ScanData scan() builds from a cached entry
CachedScanData(c, file) ==
    [Product |-> "", Issues |-> Load(c, file).value, Err |-> FALSE]

\* the outcomes of scan(ctx, p) on the cache c, where a Scanner that is
\* invoked calls processResults back with scanData before Scan returns
scan(c, p, scanData) ==
    IF ~IsTrusted
    THEN { [cache |-> c, sent |-> <<>>, analytics |-> <<>>, SeverityCount |-> EmptyMap,
            scanCalls |-> <<>>, processed |-> <<>>] }
    ELSE IF IsCached(c, p)
    THEN { [cache |-> r.cache, sent |-> r.sent, analytics |-> r.analytics,
            SeverityCount |-> r.SeverityCount,
            scanCalls |-> <<>>, processed |-> <<CachedScanData(c, p)>>] :
             r \in processResults(c, CachedScanData(c, p)) }
    ELSE { [cache |-> r.cache, sent |-> r.sent, analytics |-> r.analytics,
            SeverityCount |-> r.SeverityCount,
            scanCalls |-> << [path |-> p, folderPath |-> path] >>,
            processed |-> <<scanData>>] :
             r \in processResults(c, scanData) }

(***************************************************************************)
(* Clearing.                                                               *)
(***************************************************************************)
\* clearDiagnosticsFromFile that republishes only when it removed an entry
clearDiagnosticsFromFileIfCached(c, filePath) ==
    [cache |-> Delete(c, filePath),
     inlineCleared |-> IF hasInlineValues THEN <<filePath>> ELSE <<>>,
     sent |-> IF filePath \in DOMAIN c THEN << DiagnosticsMsg(filePath, <<>>) >> ELSE <<>>]

\* what ClearDiagnosticsFromFile(filePath) does to the cache and sends
clearDiagnosticsFromFile(c, filePath) ==
    [cache |-> Delete(c, filePath),
     inlineCleared |-> IF hasInlineValues THEN <<filePath>> ELSE <<>>,
     sent |-> << DiagnosticsMsg(filePath, <<>>) >>]

\* ClearDiagnosticsFromPathRecursively that clears the keys starting with removedPath
RECURSIVE clearRecursivelyByPrefix(_, _, _)
clearRecursivelyByPrefix(c, keys, removedPath) ==
    IF keys = <<>>
    THEN [cache |-> c, inlineCleared |-> <<>>, sent |-> <<>>, cleared |-> FALSE]
    ELSE IF HasPrefix(Head(keys), removedPath)
    THEN LET one == clearDiagnosticsFromFile(c, Head(keys))
             rest == clearRecursivelyByPrefix(one.cache, Tail(keys), removedPath)
         IN  [cache |-> rest.cache,
              inlineCleared |-> one.inlineCleared \o rest.inlineCleared,
              sent |-> one.sent \o rest.sent, cleared |-> TRUE]
    ELSE clearRecursivelyByPrefix(c, Tail(keys), removedPath)

\* ClearDiagnosticsFromPathRecursively over the keys in the order `keys`
RECURSIVE clearRecursively(_, _, _)
clearRecursively(c, keys, removedPath) ==
    IF keys = <<>>
    THEN [cache |-> c, inlineCleared |-> <<>>, sent |-> <<>>, cleared |-> FALSE]
    ELSE IF Contains(Head(keys), removedPath)
    THEN LET one == clearDiagnosticsFromFile(c, Head(keys))
             rest == clearRecursively(one.cache, Tail(keys), removedPath)
         IN  [cache |-> rest.cache,
              inlineCleared |-> one.inlineCleared \o rest.inlineCleared,
              sent |-> one.sent \o rest.sent, cleared |-> TRUE]
    ELSE clearRecursively(c, Tail(keys), removedPath)

\* ClearDiagnostics that notifies only the entries holding issues
RECURSIVE clearAllHoldingIssues(_, _)
clearAllHoldingIssues(c, keys) ==
    IF keys = <<>>
    THEN [cache |-> c, sent |-> <<>>]
    ELSE LET rest == clearAllHoldingIssues(Delete(c, Head(keys)), Tail(keys))
         IN  [cache |-> rest.cache,
              sent |-> (IF c[Head(keys)] = <<>>
                        THEN <<>>
                        ELSE << DiagnosticsMsg(Head(keys), <<>>) >>) \o rest.sent]

\* ClearDiagnostics over the keys in the order `keys`
RECURSIVE clearAll(_, _)
clearAll(c, keys) ==
    IF keys = <<>>
    THEN [cache |-> c, sent |-> <<>>]
    ELSE LET rest == clearAll(Delete(c, Head(keys)), Tail(keys))
         IN  [cache |-> rest.cache,
              sent |-> << DiagnosticsMsg(Head(keys), <<>>) >> \o rest.sent]

\* the issues ClearDiagnosticsByIssueType keeps of one entry
withoutType(previousIssues, removedType) ==
    LET keep(issue) == GetFilterableIssueType(issue) # removedType
    IN  SelectSeq(previousIssues, keep)

\* ClearDiagnosticsByIssueType that stores and republishes every entry,
\* changed or not
RECURSIVE clearByIssueTypeRepublishingAll(_, _, _)
clearByIssueTypeRepublishingAll(c, keys, removedType) ==
    IF keys = <<>>
    THEN [cache |-> c, sent |-> <<>>]
    ELSE LET filePath == Head(keys)
             newIssues == withoutType(c[filePath], removedType)
             rest == clearByIssueTypeRepublishingAll(Store(c, filePath, newIssues),
                                                     Tail(keys), removedType)
         IN  [cache |-> rest.cache,
              sent |-> << sendDiagnosticsForFile(filePath, newIssues),
                          sendHoversForFile(filePath, newIssues) >> \o rest.sent]

\* ClearDiagnosticsByIssueType over the keys in the order `keys`
RECURSIVE clearByIssueType(_, _, _)
clearByIssueType(c, keys, removedType) ==
    IF keys = <<>>
    THEN [cache |-> c, sent |-> <<>>]
    ELSE LET filePath == Head(keys)
             previousIssues == c[filePath]
             newIssues == withoutType(previousIssues, removedType)
         IN  IF Len(previousIssues) # Len(newIssues)
             THEN LET rest == clearByIssueType(Store(c, filePath, newIssues),
                                               Tail(keys), removedType)
                  IN  [cache |-> rest.cache,
                       sent |-> << sendDiagnosticsForFile(filePath, newIssues),
                                   sendHoversForFile(filePath, newIssues) >> \o rest.sent]
             ELSE clearByIssueType(c, Tail(keys), removedType)

(***************************************************************************)
(* The folder after construction.                                          *)
(***************************************************************************)
NewFolder(p) ==
    /\ path = TrimSuffix(p, <<"/">>)
    /\ status = Unscanned
    /\ cache = EmptyMap

Init ==
    /\ \E p \in FolderPathInputs : NewFolder(p)
    /\ config \in Configs
    /\ hasInlineValues \in BOOLEAN
    /\ out = NoOut
    /\ pc = [cb \in Callbacks |-> "idle"]
    /\ local = [cb \in Callbacks |-> IdleLocal]

(***************************************************************************)
(* The operations of a Folder, each run to completion.  `out` records what *)
(* the operation that has just run did to its collaborators (Scanner,      *)
(* notifier, scan notifier, hover channel, analytics); Return drops that   *)
(* record before the next operation starts.                                *)
(***************************************************************************)
IsScanned == status = Scanned

Ready == out.op \in {"NewFolder", "idle"}

Return ==
    /\ ~Ready
    /\ out' = [NoOut EXCEPT !.op = "idle"]
    /\ UNCHANGED <<path, status, cache, config, hasInlineValues, pc, local>>

\* the record of an operation
Did(op, arg) == [NoOut EXCEPT !.op = op, !.arg = arg, !.trusted = IsTrusted]

DidScan(op, arg, r) ==
    [Did(op, arg) EXCEPT !.scanCalls = r.scanCalls, !.processed = r.processed,
                         !.sent = r.sent, !.analytics = r.analytics,
                         !.SeverityCount = r.SeverityCount]

\* the status ScanFolder leaves
statusAfterScanFolder(s) == Scanned

\* ScanFile that resets the status
statusAfterScanFileReset(s) == Unscanned

\* the status ScanFile leaves
statusAfterScanFile(s) == s

ScanFolder(scanData) ==
    /\ Ready
    /\ \E r \in scan(cache, path, scanData) :
        /\ cache' = r.cache
        /\ out' = DidScan("ScanFolder", path, r)
    /\ status' = statusAfterScanFolder(status)
    /\ UNCHANGED <<path, config, hasInlineValues, pc, local>>

ScanFile(file, scanData) ==
    /\ Ready
    /\ \E r \in scan(cache, file, scanData) :
        /\ cache' = r.cache
        /\ out' = DidScan("ScanFile", file, r)
    /\ status' = statusAfterScanFile(status)
    /\ UNCHANGED <<path, config, hasInlineValues, pc, local>>

\* a Scanner calling processResults back later than Scan returned
ProcessResults(scanData) ==
    /\ Ready
    /\ \E r \in processResults(cache, scanData) :
        /\ cache' = r.cache
        /\ out' = [Did("ProcessResults", <<>>) EXCEPT
                       !.processed = <<scanData>>, !.sent = r.sent,
                       !.analytics = r.analytics, !.SeverityCount = r.SeverityCount]
    /\ UNCHANGED <<path, status, config, hasInlineValues, pc, local>>

PublishCached(product) ==
    /\ Ready
    /\ \E m \in FilterAndPublishCachedDiagnostics(cache, product) :
        out' = [Did("FilterAndPublishCachedDiagnostics", <<product>>) EXCEPT !.sent = m]
    /\ UNCHANGED <<path, status, cache, config, hasInlineValues, pc, local>>

ClearScannedStatus ==
    /\ Ready
    /\ status' = Unscanned
    /\ out' = Did("ClearScannedStatus", <<>>)
    /\ UNCHANGED <<path, cache, config, hasInlineValues, pc, local>>

SetStatus(s) ==
    /\ Ready
    /\ status' = s
    /\ out' = Did("SetStatus", <<s>>)
    /\ UNCHANGED <<path, cache, config, hasInlineValues, pc, local>>

ClearDiagnosticsFromFile(filePath) ==
    /\ Ready
    /\ LET r == clearDiagnosticsFromFile(cache, filePath)
       IN  /\ cache' = r.cache
           /\ out' = [Did("ClearDiagnosticsFromFile", filePath) EXCEPT
                          !.inlineCleared = r.inlineCleared, !.sent = r.sent]
    /\ status' = Unscanned
    /\ UNCHANGED <<path, config, hasInlineValues, pc, local>>

ClearDiagnosticsFromPathRecursively(removedPath) ==
    /\ Ready
    /\ \E keys \in Orders(DOMAIN cache) :
        LET r == clearRecursively(cache, keys, removedPath)
        IN  /\ cache' = r.cache
            /\ out' = [Did("ClearDiagnosticsFromPathRecursively", removedPath) EXCEPT
                           !.inlineCleared = r.inlineCleared, !.sent = r.sent]
            /\ status' = IF r.cleared THEN Unscanned ELSE status
    /\ UNCHANGED <<path, config, hasInlineValues, pc, local>>

ClearDiagnostics ==
    /\ Ready
    /\ \E keys \in Orders(DOMAIN cache) :
        LET r == clearAll(cache, keys)
        IN  /\ cache' = r.cache
            /\ out' = [Did("ClearDiagnostics", <<>>) EXCEPT !.sent = r.sent]
    /\ UNCHANGED <<path, status, config, hasInlineValues, pc, local>>

ClearDiagnosticsByIssueType(removedType) ==
    /\ Ready
    /\ \E keys \in Orders(DOMAIN cache) :
        LET r == clearByIssueType(cache, keys, removedType)
        IN  /\ cache' = r.cache
            /\ out' = [Did("ClearDiagnosticsByIssueType", <<removedType>>) EXCEPT
                           !.sent = r.sent]
    /\ UNCHANGED <<path, status, config, hasInlineValues, pc, local>>

\* the user changes the settings
UpdateConfig(c) ==
    /\ Ready
    /\ config' = c
    /\ out' = [NoOut EXCEPT !.op = "UpdateConfig"]
    /\ UNCHANGED <<path, status, cache, hasInlineValues, pc, local>>

\* the paths ClearDiagnosticsFromPathRecursively is called with: "/p/s", a
\* file, "/o", and "s/a", which is inside a key without being its prefix
RemovedPaths == { <<"/", "p", "/", "s">>, FileA, OtherRoot, <<"s", "/", "a">> }

Next ==
    \/ \E scanData \in ScanDatas : ScanFolder(scanData)
    \/ \E file \in FilePaths, scanData \in ScanDatas : ScanFile(file, scanData)
    \/ \E scanData \in ScanDatas : ProcessResults(scanData)
    \/ \E product \in Products : PublishCached(product)
    \/ ClearScannedStatus
    \/ \E s \in {Unscanned, Scanned} : SetStatus(s)
    \/ \E filePath \in FilePaths : ClearDiagnosticsFromFile(filePath)
    \/ \E removedPath \in RemovedPaths : ClearDiagnosticsFromPathRecursively(removedPath)
    \/ ClearDiagnostics
    \/ \E removedType \in FilterableIssueTypes : ClearDiagnosticsByIssueType(removedType)
    \/ \E c \in Configs : UpdateConfig(c)
    \/ Return

Spec == Init /\ [][Next]_vars

(***************************************************************************)
(* Interleaved scan-completion callbacks.  Each callback runs              *)
(* processResults in the steps between which another goroutine may run:    *)
(* build the dedup map, then per issue Load the entry and Store it back,   *)
(* then publish.  The Range of createDedupMap is taken as one snapshot.    *)
(* Here `out` records what the last step sent.                             *)
(***************************************************************************)
\* the results the scanners deliver here: no batch repeats an identity
ConcurrentScanDatas ==
    { d \in [Product : {"oss"}, Issues : SeqsUpTo({IssueA1, IssueB1}, MaxBatch), Err : BOOLEAN] :
        \A i, j \in 1..Len(d.Issues) :
            i # j => getUniqueIssueID(d.Issues[i]) # getUniqueIssueID(d.Issues[j]) }

InitConcurrent ==
    /\ \E p \in FolderPathInputs : NewFolder(p)
    /\ config = [trustEnabled |-> FALSE, trustedFolders |-> {},
                 filterSeverity |-> AllVisible, displayableIssueTypes |-> AllTypes]
    /\ hasInlineValues = TRUE
    /\ out = NoOut
    /\ pc = [cb \in Callbacks |-> "idle"]
    /\ local = [cb \in Callbacks |-> IdleLocal]

StepOut == [NoOut EXCEPT !.op = "processResults"]

\* lines 278-287: the error branch, or createDedupMap
BeginProcessResults(cb, scanData) ==
    /\ pc[cb] = "idle"
    /\ IF scanData.Err
       THEN /\ \E r \in processError(cache, scanData) :
                out' = [StepOut EXCEPT !.processed = <<scanData>>, !.sent = r.sent]
            /\ UNCHANGED <<pc, local>>
       ELSE /\ local' = [local EXCEPT ![cb] =
                            [data |-> scanData, dedupMap |-> createDedupMap(cache),
                             cachedIssues |-> <<>>, SeverityCount |-> EmptyMap]]
            /\ pc' = [pc EXCEPT ![cb] = IF scanData.Issues = <<>> THEN "publish" ELSE "load"]
            /\ out' = StepOut
    /\ UNCHANGED <<path, status, cache, config, hasInlineValues>>

\* lines 292-295: Load the entry of the next issue's file
LoadCachedIssues(cb) ==
    /\ pc[cb] = "load"
    /\ LET issue == Head(local[cb].data.Issues)
           loaded == Load(cache, issue.AffectedFilePath)
       IN  local' = [local EXCEPT ![cb].cachedIssues =
                        IF loaded.ok THEN loaded.value ELSE <<>>]
    /\ pc' = [pc EXCEPT ![cb] = "store"]
    /\ out' = StepOut
    /\ UNCHANGED <<path, status, cache, config, hasInlineValues>>

\* lines 297-302: append the issue if it is new, count it, Store the entry
StoreCachedIssues(cb) ==
    /\ pc[cb] = "store"
    /\ LET issue == Head(local[cb].data.Issues)
           rest == Tail(local[cb].data.Issues)
       IN  /\ cache' = Store(cache, issue.AffectedFilePath,
                             appendIfNew(local[cb].cachedIssues, issue, local[cb].dedupMap))
           /\ local' = [local EXCEPT
                           ![cb].SeverityCount =
                               countIfNew(@, issue, local[cb].dedupMap),
                           ![cb].data.Issues = rest,
                           ![cb].cachedIssues = <<>>]
           /\ pc' = [pc EXCEPT ![cb] = IF rest = <<>> THEN "publish" ELSE "load"]
    /\ out' = StepOut
    /\ UNCHANGED <<path, status, config, hasInlineValues>>

\* lines 305-309: sendAnalytics and FilterAndPublishCachedDiagnostics
PublishProcessedResults(cb) ==
    /\ pc[cb] = "publish"
    /\ LET sentAnalytics == sendAnalytics(local[cb].data, local[cb].SeverityCount)
       IN  \E m \in FilterAndPublishCachedDiagnostics(cache, local[cb].data.Product) :
               out' = [StepOut EXCEPT !.sent = m, !.analytics = sentAnalytics.analytics,
                                      !.SeverityCount = sentAnalytics.SeverityCount]
    /\ pc' = [pc EXCEPT ![cb] = "idle"]
    /\ local' = [local EXCEPT ![cb] = IdleLocal]
    /\ UNCHANGED <<path, status, cache, config, hasInlineValues>>

NextConcurrent ==
    \/ \E cb \in Callbacks, scanData \in ConcurrentScanDatas : BeginProcessResults(cb, scanData)
    \/ \E cb \in Callbacks : LoadCachedIssues(cb)
    \/ \E cb \in Callbacks : StoreCachedIssues(cb)
    \/ \E cb \in Callbacks : PublishProcessedResults(cb)

SpecConcurrent == InitConcurrent /\ [][NextConcurrent]_vars

(***************************************************************************)
(* FilterIssues on its own: the function applied to lists of issues of     *)
(* every severity, under the filter settings a user may choose.            *)
(***************************************************************************)
CriticalAndHigh == [Critical |-> TRUE, High |-> TRUE, Medium |-> FALSE, Low |-> FALSE]

\* one issue of each severity, an issue of a second type, and an issue
\* whose type is no key of the displayable-types map
FilterIssueInputs ==
    { [ID |-> <<"i", "1">>, AffectedFilePath |-> FileA, Severity |-> s,
       Product |-> "oss", IssueType |-> "Open Source"] : s \in Severities }
    \cup { [ID |-> <<"i", "2">>, AffectedFilePath |-> FileA, Severity |-> High,
            Product |-> "code", IssueType |-> "Code Quality"],
           IssueA1Low }

FilterConfigs ==
    [trustEnabled : {FALSE}, trustedFolders : {{}},
     filterSeverity : {AllVisible, CriticalAndHigh},
     displayableIssueTypes : {AllTypes, [AllTypes EXCEPT !["Code Quality"] = FALSE]}]

InitFilter ==
    /\ \E p \in FolderPathInputs : NewFolder(p)
    /\ config \in FilterConfigs
    /\ hasInlineValues = TRUE
    /\ out = NoOut
    /\ pc = [cb \in Callbacks |-> "idle"]
    /\ local = [cb \in Callbacks |-> IdleLocal]

\* a call FilterIssues(issues, config.CurrentConfig().DisplayableIssueTypes())
CallFilterIssues(issues) ==
    /\ Ready
    /\ out' = [Did("FilterIssues", issues) EXCEPT
                   !.result = FilterIssues(issues, config.displayableIssueTypes)]
    /\ UNCHANGED <<path, status, cache, config, hasInlineValues, pc, local>>

NextFilter ==
    \/ \E issues \in SeqsUpTo(FilterIssueInputs, MaxFilterInput) : CallFilterIssues(issues)
    \/ \E c \in FilterConfigs : UpdateConfig(c)
    \/ Return

SpecFilter == InitFilter /\ [][NextFilter]_vars

(***************************************************************************)
(* Publishing, message by message.  The hover channel is unbuffered: the   *)
(* send at line 510 completes when the receiver takes the document, and    *)
(* until then the sending goroutine waits there.  Each goroutine runs one  *)
(* operation: processResults with its FilterAndPublishCachedDiagnostics,   *)
(* or ClearDiagnosticsByIssueType.  local[g].todo holds the messages the   *)
(* goroutine has still to send, in program order, local[g].sent the ones   *)
(* it has sent, local[g].due the files the operation owes a diagnostics    *)
(* notification to.  `out` records the last document the hover receiver    *)
(* took, and is NoOut as long as it has taken none.                        *)
(***************************************************************************)
IssueB1OpenSource == [IssueB1 EXCEPT !.Product = "oss", !.IssueType = "Open Source"]

\* results for two files with issues of one type; no batch repeats an identity
HoverScanDatas ==
    { d \in [Product : {"oss"}, Err : {FALSE},
             Issues : SeqsUpTo({IssueA1, IssueB1OpenSource}, MaxBatch)] :
        \A i, j \in 1..Len(d.Issues) :
            i # j => getUniqueIssueID(d.Issues[i]) # getUniqueIssueID(d.Issues[j]) }

IdleGoroutine ==
    [op |-> "", removedType |-> "", keys |-> <<>>, todo |-> <<>>, due |-> {},
     sent |-> <<>>]

InitHover ==
    /\ \E p \in FolderPathInputs : NewFolder(p)
    /\ config = [trustEnabled |-> FALSE, trustedFolders |-> {},
                 filterSeverity |-> AllVisible, displayableIssueTypes |-> AllTypes]
    /\ hasInlineValues = TRUE
    /\ out = NoOut
    /\ pc = [g \in Callbacks |-> "idle"]
    /\ local = [g \in Callbacks |-> IdleGoroutine]

\* lines 277-310, 407-410, 464-468: processResults stores the issues and
\* has the diagnostics, scan result and hovers of every cached file to send
BeginPublish(g, scanData) ==
    /\ pc[g] = "idle"
    /\ \E r \in processResults(cache, scanData) :
        /\ cache' = r.cache
        /\ local' = [local EXCEPT ![g] =
                        [IdleGoroutine EXCEPT
                            !.op = "FilterAndPublishCachedDiagnostics",
                            !.todo = r.sent,
                            !.due = { PathToUri(key) : key \in DOMAIN r.cache }]]
    /\ pc' = [pc EXCEPT ![g] = "send"]
    /\ UNCHANGED <<path, status, config, hasInlineValues, out>>

\* lines 552-553: ClearDiagnosticsByIssueType starts its Range over the cache
BeginClearDiagnosticsByIssueType(g, removedType) ==
    /\ pc[g] = "idle"
    /\ \E keys \in Orders(DOMAIN cache) :
        local' = [local EXCEPT ![g] =
                     [IdleGoroutine EXCEPT
                         !.op = "ClearDiagnosticsByIssueType",
                         !.removedType = removedType,
                         !.keys = keys,
                         !.due = { PathToUri(key) : key \in
                                     { k \in DOMAIN cache :
                                         Len(withoutType(cache[k], removedType))
                                             # Len(cache[k]) } }]]
    /\ pc' = [pc EXCEPT ![g] = "range"]
    /\ UNCHANGED <<path, status, cache, config, hasInlineValues, out>>

\* lines 553-567: the Range callback for the next entry: a changed entry is
\* stored and has its diagnostics and its hovers to send
VisitEntry(g) ==
    /\ pc[g] = "range"
    /\ local[g].keys # <<>>
    /\ LET filePath == Head(local[g].keys)
           previousIssues == cache[filePath]
           newIssues == withoutType(previousIssues, local[g].removedType)
       IN  IF Len(previousIssues) # Len(newIssues)
           THEN /\ cache' = Store(cache, filePath, newIssues)
                /\ local' = [local EXCEPT
                                ![g].keys = Tail(@),
                                ![g].todo = << sendDiagnosticsForFile(filePath, newIssues),
                                               sendHoversForFile(filePath, newIssues) >>]
                /\ pc' = [pc EXCEPT ![g] = "send"]
           ELSE /\ local' = [local EXCEPT ![g].keys = Tail(@)]
                /\ UNCHANGED <<cache, pc>>
    /\ UNCHANGED <<path, status, config, hasInlineValues, out>>

\* the goroutine waits in the channel send of line 510
BlockedOnHover(g) == pc[g] = "send" /\ Head(local[g].todo).kind = "hover"

\* the goroutine's next message is out
Sent(g) ==
    /\ local' = [local EXCEPT ![g].todo = Tail(@),
                              ![g].sent = Append(@, Head(local[g].todo))]
    /\ pc' = [pc EXCEPT ![g] = IF Tail(local[g].todo) = <<>> THEN "range" ELSE "send"]

\* lines 494-501, 584-595: notifier.Send and the scan notifier do not wait
SendNotification(g) ==
    /\ pc[g] = "send"
    /\ ~BlockedOnHover(g)
    /\ Sent(g)
    /\ UNCHANGED <<path, status, cache, config, hasInlineValues, out>>

\* lines 509-511: the receiver of the hover channel takes the document
SendHover(g) ==
    /\ BlockedOnHover(g)
    /\ Sent(g)
    /\ out' = [NoOut EXCEPT !.op = "hover", !.sent = <<Head(local[g].todo)>>]
    /\ UNCHANGED <<path, status, cache, config, hasInlineValues>>

\* the operation returns
ReturnFromOperation(g) ==
    /\ pc[g] = "range"
    /\ local[g].keys = <<>>
    /\ pc' = [pc EXCEPT ![g] = "idle"]
    /\ local' = [local EXCEPT ![g] = IdleGoroutine]
    /\ UNCHANGED <<path, status, cache, config, hasInlineValues, out>>

NextHover ==
    \/ \E g \in Callbacks, scanData \in HoverScanDatas : BeginPublish(g, scanData)
    \/ \E g \in Callbacks, removedType \in FilterableIssueTypes :
           BeginClearDiagnosticsByIssueType(g, removedType)
    \/ \E g \in Callbacks : VisitEntry(g)
    \/ \E g \in Callbacks : SendNotification(g)
    \/ \E g \in Callbacks : SendHover(g)
    \/ \E g \in Callbacks : ReturnFromOperation(g)

SpecHover == InitHover /\ [][NextHover]_vars

(***************************************************************************)
(* A Scanner that reports an issue against the folder path itself, so that *)
(* the cache comes to hold an entry keyed by Folder.path.                  *)
(***************************************************************************)
IssueAtFolderPath ==
    [ID |-> <<"i", "1">>, AffectedFilePath |-> <<"/", "p", "/", "s">>, Severity |-> High,
     Product |-> "oss", IssueType |-> "Open Source"]

FolderEntryScanDatas ==
    [Product : {"oss"}, Issues : SeqsUpTo({IssueA1, IssueAtFolderPath}, MaxBatch),
     Err : {FALSE}]

NextFolderEntry ==
    \/ \E scanData \in FolderEntryScanDatas : ScanFolder(scanData)
    \/ \E file \in FilePaths, scanData \in FolderEntryScanDatas : ScanFile(file, scanData)
    \/ ClearDiagnostics
    \/ \E c \in Configs : UpdateConfig(c)
    \/ Return

SpecFolderEntry == Init /\ [][NextFolderEntry]_vars

(***************************************************************************)
(* A Scanner that may return from Scan before it calls processResults back *)
(* (line 266 hands it the callback; when it calls is the Scanner's         *)
(* choice).  pc[cb] = "scheduled" says the callback of a scan is still to  *)
(* run, with the ScanData local[cb].data.                                  *)
(***************************************************************************)
\* lines 208-213, 266: ScanFolder with a Scanner that returns from Scan and
\* calls back later
ScanFolderLateCallback(cb, scanData) ==
    /\ Ready
    /\ pc[cb] = "idle"
    /\ IsTrusted
    /\ ~IsCached(cache, path)
    /\ out' = [Did("ScanFolder", path) EXCEPT
                   !.scanCalls = << [path |-> path, folderPath |-> path] >>]
    /\ pc' = [pc EXCEPT ![cb] = "scheduled"]
    /\ local' = [local EXCEPT ![cb].data = scanData]
    /\ status' = statusAfterScanFolder(status)
    /\ UNCHANGED <<path, cache, config, hasInlineValues>>

\* lines 277-310: the Scanner calls processResults back
RunCallback(cb) ==
    /\ Ready
    /\ pc[cb] = "scheduled"
    /\ \E r \in processResults(cache, local[cb].data) :
        /\ cache' = r.cache
        /\ out' = [Did("ProcessResults", <<>>) EXCEPT
                       !.processed = <<local[cb].data>>, !.sent = r.sent,
                       !.analytics = r.analytics, !.SeverityCount = r.SeverityCount]
    /\ pc' = [pc EXCEPT ![cb] = "idle"]
    /\ local' = [local EXCEPT ![cb] = IdleLocal]
    /\ UNCHANGED <<path, status, config, hasInlineValues>>

NextLateCallback ==
    \/ \E scanData \in ConcurrentScanDatas : ScanFolder(scanData)
    \/ \E cb \in Callbacks, scanData \in ConcurrentScanDatas :
           ScanFolderLateCallback(cb, scanData)
    \/ \E cb \in Callbacks : RunCallback(cb)
    \/ ClearScannedStatus
    \/ ClearDiagnostics
    \/ Return

SpecLateCallback == InitConcurrent /\ [][NextLateCallback]_vars

(***************************************************************************)
(* IsTrusted on its own, under every choice of trusted folders among "/p", *)
(* "/o", "/p/", "/p/s" and "/p/s/x", with the trust feature on or off.     *)
(***************************************************************************)
TrustedFolderInputs ==
    { TrustedRoot, OtherRoot, <<"/", "p", "/">>, <<"/", "p", "/", "s">>,
      <<"/", "p", "/", "s", "/", "x">> }

TrustConfigs ==
    [trustEnabled : BOOLEAN, trustedFolders : SUBSET TrustedFolderInputs,
     filterSeverity : {AllVisible}, displayableIssueTypes : {AllTypes}]

InitTrust ==
    /\ \E p \in FolderPathInputs : NewFolder(p)
    /\ config \in TrustConfigs
    /\ hasInlineValues = TRUE
    /\ out = NoOut
    /\ pc = [cb \in Callbacks |-> "idle"]
    /\ local = [cb \in Callbacks |-> IdleLocal]

\* a call f.IsTrusted()
CallIsTrusted ==
    /\ Ready
    /\ out' = [Did("IsTrusted", path) EXCEPT !.result = <<IsTrusted>>]
    /\ UNCHANGED <<path, status, cache, config, hasInlineValues, pc, local>>

NextTrust ==
    \/ CallIsTrusted
    \/ \E c \in TrustConfigs : UpdateConfig(c)
    \/ Return

SpecTrust == InitTrust /\ [][NextTrust]_vars

(***************************************************************************)
(* The accessors of Folder.status, step by step.  A goroutine enters a     *)
(* method, with or without taking f.mutex as the method does, and then     *)
(* reads or writes f.status; pc[g] names the method whose status access    *)
(* the goroutine g is about to make, local[g].holdsMutex says whether it   *)
(* holds f.mutex, local[g].value is the status it is about to write.       *)
(***************************************************************************)
NoAccess == [holdsMutex |-> FALSE, value |-> Unscanned]

\* the methods that take f.mutex before they touch f.status, with the
\* status each of them writes (lines 190-213)
LockingReaders == {"IsScanned"}
LockingWriters ==
    { [method |-> "ClearScannedStatus", value |-> Unscanned],
      [method |-> "SetStatus", value |-> Unscanned],
      [method |-> "SetStatus", value |-> Scanned],
      [method |-> "ScanFolder", value |-> Scanned] }

InitStatusAccess ==
    /\ \E p \in FolderPathInputs : NewFolder(p)
    /\ config = [trustEnabled |-> FALSE, trustedFolders |-> {},
                 filterSeverity |-> AllVisible, displayableIssueTypes |-> AllTypes]
    /\ hasInlineValues = TRUE
    /\ out = NoOut
    /\ pc = [g \in Callbacks |-> "idle"]
    /\ local = [g \in Callbacks |-> NoAccess]

MutexFree == \A g \in Callbacks : ~local[g].holdsMutex

\* f.mutex.Lock() of IsScanned, ClearScannedStatus, SetStatus and ScanFolder
\* (lines 191, 197, 203, 210)
LockMutex(g, method, value) ==
    /\ pc[g] = "idle"
    /\ MutexFree
    /\ pc' = [pc EXCEPT ![g] = method]
    /\ local' = [local EXCEPT ![g] = [holdsMutex |-> TRUE, value |-> value]]
    /\ UNCHANGED <<path, status, cache, config, hasInlineValues, out>>

\* line 515: Status() goes to f.status without f.mutex
EnterStatus(g) ==
    /\ pc[g] = "idle"
    /\ pc' = [pc EXCEPT ![g] = "Status"]
    /\ UNCHANGED <<path, status, cache, config, hasInlineValues, out, local>>

\* the goroutine is about to read f.status
ReadsStatus(g) == pc[g] \in LockingReaders \cup {"Status"}

\* the goroutine is about to write f.status
WritesStatus(g) == pc[g] \in { w.method : w \in LockingWriters }

\* lines 193, 515: the read of f.status, and the return (with the unlock)
ReadStatus(g) ==
    /\ ReadsStatus(g)
    /\ out' = [NoOut EXCEPT !.op = pc[g],
                            !.result = IF pc[g] = "IsScanned"
                                       THEN <<status = Scanned>>
                                       ELSE <<status>>]
    /\ pc' = [pc EXCEPT ![g] = "idle"]
    /\ local' = [local EXCEPT ![g] = NoAccess]
    /\ UNCHANGED <<path, status, cache, config, hasInlineValues>>

\* lines 199, 205, 212: the write of f.status, and the unlock
WriteStatus(g) ==
    /\ WritesStatus(g)
    /\ status' = local[g].value
    /\ out' = [NoOut EXCEPT !.op = pc[g]]
    /\ pc' = [pc EXCEPT ![g] = "idle"]
    /\ local' = [local EXCEPT ![g] = NoAccess]
    /\ UNCHANGED <<path, cache, config, hasInlineValues>>

NextStatusAccess ==
    \/ \E g \in Callbacks, method \in LockingReaders : LockMutex(g, method, Unscanned)
    \/ \E g \in Callbacks, w \in LockingWriters : LockMutex(g, w.method, w.value)
    \/ \E g \in Callbacks : EnterStatus(g)
    \/ \E g \in Callbacks : ReadStatus(g)
    \/ \E g \in Callbacks : WriteStatus(g)

SpecStatusAccess == InitStatusAccess /\ [][NextStatusAccess]_vars

(***************************************************************************)
(* Interleaved processResults callbacks that write disjoint keys: the      *)
(* callback cb reports issues of its own file FileOf(cb) only.             *)
(***************************************************************************)
\* "/p/s/fx", "/p/s/fxx", ...: the file of the callback cb
FileOf(cb) == <<"/", "p", "/", "s", "/", "f">> \o [k \in 1..cb |-> "x"]

\* the n-th issue of the file of cb, with the ID "i1", "i11", ...
IssueOf(cb, n) ==
    [ID |-> <<"i">> \o [k \in 1..n |-> "1"], AffectedFilePath |-> FileOf(cb),
     Severity |-> High, Product |-> "oss", IssueType |-> "Open Source"]

\* the results the scanner of cb delivers: the first k issues of its file
DisjointScanDatas(cb) ==
    { [Product |-> "oss", Issues |-> [n \in 1..k |-> IssueOf(cb, n)], Err |-> FALSE] :
        k \in 1..MaxBatch }

\* lines 305-309: sendAnalytics and FilterAndPublishCachedDiagnostics, which
\* read the cache and write nothing of the folder; the notifications go to
\* the notifiers and are not recorded in `out` here
FinishProcessResults(cb) ==
    /\ pc[cb] = "publish"
    /\ LET sentAnalytics == sendAnalytics(local[cb].data, local[cb].SeverityCount)
       IN  out' = [StepOut EXCEPT !.analytics = sentAnalytics.analytics,
                                  !.SeverityCount = sentAnalytics.SeverityCount]
    /\ pc' = [pc EXCEPT ![cb] = "idle"]
    /\ local' = [local EXCEPT ![cb] = IdleLocal]
    /\ UNCHANGED <<path, status, cache, config, hasInlineValues>>

\* each file is scanned once: the callback of a file that has an entry has run
NextDisjoint ==
    \/ \E cb \in Callbacks : \E scanData \in DisjointScanDatas(cb) :
           FileOf(cb) \notin DOMAIN cache /\ BeginProcessResults(cb, scanData)
    \/ \E cb \in Callbacks : LoadCachedIssues(cb)
    \/ \E cb \in Callbacks : StoreCachedIssues(cb)
    \/ \E cb \in Callbacks : FinishProcessResults(cb)

SpecDisjoint == InitConcurrent /\ [][NextDisjoint]_vars

(***************************************************************************)
(* The lookups IssuesFor and AllIssuesFor.  An issue carries the Range of  *)
(* the text it is about; a Range is a pair of positions, a position a      *)
(* <<line, character>> pair.                                               *)
(***************************************************************************)
Before(p, q) == p[1] < q[1] \/ (p[1] = q[1] /\ p[2] < q[2])

\* Range.Overlaps: the two half-open spans [Start, End) share a position
Overlaps(r, otherRange) ==
    Before(r.Start, otherRange.End) /\ Before(otherRange.Start, r.End)

RangedIssue(id, start, end) ==
    [ID |-> <<"i", id>>, AffectedFilePath |-> FileA, Severity |-> High,
     Product |-> "oss", IssueType |-> "Open Source",
     Range |-> [Start |-> start, End |-> end]]

\* three issues of "/p/s/a": the head of line 0, the rest of line 0, line 1
RangedIssues ==
    { RangedIssue("1", <<0, 0>>, <<0, 2>>),
      RangedIssue("2", <<0, 2>>, <<1, 0>>),
      RangedIssue("3", <<1, 0>>, <<2, 0>>) }

LookupScanDatas ==
    [Product : {"oss"}, Issues : SeqsUpTo(RangedIssues, MaxBatch), Err : {FALSE}]

RequestedRanges ==
    { [Start |-> <<0, 0>>, End |-> <<0, 1>>],
      [Start |-> <<0, 1>>, End |-> <<0, 3>>],
      [Start |-> <<0, 2>>, End |-> <<1, 1>>],
      [Start |-> <<2, 0>>, End |-> <<2, 4>>] }

\* DocumentDiagnosticsFromCache(file): the cached issues, nil (here <<>>)
\* without an entry
DocumentDiagnosticsFromCache(c, file) == Load(c, file).value

\* the loop of IssuesFor over the cached issues
RECURSIVE matchingIssues(_, _)
matchingIssues(issues, requestedRange) ==
    IF issues = <<>> THEN <<>>
    ELSE IF Overlaps(Head(issues).Range, requestedRange)
         THEN <<Head(issues)>> \o matchingIssues(Tail(issues), requestedRange)
         ELSE matchingIssues(Tail(issues), requestedRange)

IssuesForEveryRange(c, filePath, requestedRange) ==
    DocumentDiagnosticsFromCache(c, filePath)

IssuesFor(c, filePath, requestedRange) ==
    matchingIssues(DocumentDiagnosticsFromCache(c, filePath), requestedRange)

AllIssuesFor(c, filePath) == DocumentDiagnosticsFromCache(c, filePath)

CallIssuesFor(filePath, requestedRange) ==
    /\ Ready
    /\ out' = [Did("IssuesFor", <<filePath, requestedRange>>) EXCEPT
                   !.result = IssuesFor(cache, filePath, requestedRange)]
    /\ UNCHANGED <<path, status, cache, config, hasInlineValues, pc, local>>

CallAllIssuesFor(filePath) ==
    /\ Ready
    /\ out' = [Did("AllIssuesFor", <<filePath>>) EXCEPT
                   !.result = AllIssuesFor(cache, filePath)]
    /\ UNCHANGED <<path, status, cache, config, hasInlineValues, pc, local>>

NextLookup ==
    \/ \E scanData \in LookupScanDatas : ProcessResults(scanData)
    \/ \E filePath \in FilePaths, requestedRange \in RequestedRanges :
           CallIssuesFor(filePath, requestedRange)
    \/ \E filePath \in FilePaths : CallAllIssuesFor(filePath)
    \/ \E s \in {Unscanned, Scanned} : SetStatus(s)
    \/ ClearDiagnostics
    \/ Return

SpecLookup == Init /\ [][NextLookup]_vars

(***************************************************************************)
(* Scanners that report two findings of different identity for one file,   *)
(* so that processResults comes to append to an entry that holds an issue. *)
(***************************************************************************)
IssueA2 == [ID |-> <<"i", "2">>, AffectedFilePath |-> FileA, Severity |-> High,
            Product |-> "oss", IssueType |-> "Code Security"]

GrowScanDatas ==
    [Product : {"oss"}, Issues : SeqsUpTo({IssueA1, IssueA2, IssueB1}, MaxBatch),
     Err : BOOLEAN]

NextGrow ==
    \/ \E scanData \in GrowScanDatas : ScanFolder(scanData)
    \/ \E file \in FilePaths, scanData \in GrowScanDatas : ScanFile(file, scanData)
    \/ \E scanData \in GrowScanDatas : ProcessResults(scanData)
    \/ \E filePath \in FilePaths : ClearDiagnosticsFromFile(filePath)
    \/ \E removedPath \in {FileB, <<"/", "p", "/", "s">>} :
           ClearDiagnosticsFromPathRecursively(removedPath)
    \/ ClearDiagnostics
    \/ \E removedType \in {"Open Source", "Code Security"} :
           ClearDiagnosticsByIssueType(removedType)
    \/ Return

SpecGrow == Init /\ [][NextGrow]_vars

(***************************************************************************)
(* Properties.                                                             *)
(***************************************************************************)
\* the places of the cached issues: <<file, index>>
CachedPlaces(c) ==
    UNION { { <<key, n>> : n \in 1..Len(c[key]) } : key \in DOMAIN c }

\* the folder path has no configured trusted path as a prefix, with the
\* trust feature on
Untrusted ==
    /\ config.trustEnabled
    /\ \A trusted \in config.trustedFolders : ~HasPrefix(path, trusted)

ScanOps == {"ScanFolder", "ScanFile"}

\* the operation that has just run handed a ScanData with an error to processResults
FailedScanData(o) == Len(o.processed) = 1 /\ o.processed[1].Err

\* C1: with the operations run one at a time, no two issues stored in the
\* cache have the same unique identity ID + "|" + AffectedFilePath.
C1_DedupInvariant ==
    \A a, b \in CachedPlaces(cache) :
        a # b => getUniqueIssueID(cache[a[1]][a[2]]) # getUniqueIssueID(cache[b[1]][b[2]])

\* C2: with processResults callbacks interleaved, the cache holds as many
\* issues as it holds unique identities (no identity is stored twice).
C2_ConcurrentDedupInvariant ==
    Cardinality(CachedPlaces(cache)) = Cardinality(createDedupMap(cache))

\* C3: ScanFile(path) on a trusted folder whose cache holds a non-empty entry
\* for path invokes the Scanner zero times and runs processResults exactly
\* once, on the cached issues of path.
C3_CacheHitSkipsScanner ==
    [][ ( /\ out'.op = "ScanFile"
          /\ IsTrusted
          /\ out'.arg \in DOMAIN cache
          /\ cache[out'.arg] # <<>> )
        => ( /\ out'.scanCalls = <<>>
             /\ Len(out'.processed) = 1
             /\ out'.processed[1].Issues = cache[out'.arg]
             /\ ~out'.processed[1].Err ) ]_vars

C3_Witness ==
    /\ out.op = "ScanFile"
    /\ out.trusted
    /\ out.scanCalls = <<>>
    /\ Len(out.processed) = 1
    /\ out.processed[1].Issues # <<>>
    /\ out.processed[1].Issues = cache[out.arg]

\* C4: ScanFile(path) on a trusted folder invokes the Scanner exactly once
\* whenever the cache has no non-empty entry for path (the entry is absent,
\* or present with an empty issue list).
C4_ScansWithoutNonEmptyEntry ==
    [][ ( /\ out'.op = "ScanFile"
          /\ IsTrusted
          /\ (out'.arg \notin DOMAIN cache \/ cache[out'.arg] = <<>>) )
        => Len(out'.scanCalls) = 1 ]_vars

\* C5: with the trust feature on and no trusted path a prefix of the folder
\* path, ScanFolder and ScanFile invoke the Scanner zero times, leave the
\* cache as it was and send no notification.
C5_UntrustedScanIsDropped ==
    [][ (out'.op \in ScanOps /\ Untrusted)
        => ( /\ out'.scanCalls = <<>>
             /\ out'.processed = <<>>
             /\ cache' = cache
             /\ out'.sent = <<>>
             /\ out'.analytics = <<>> ) ]_vars

C5_Witness ==
    /\ out.op \in ScanOps
    /\ Untrusted
    /\ cache # EmptyMap

\* C6: ScanFolder on an untrusted folder leaves the folder status as it was.
C6_UntrustedScanFolderKeepsStatus ==
    [][ (out'.op = "ScanFolder" /\ Untrusted) => status' = status ]_vars

\* C7: processResults on a ScanData with an error sends exactly one
\* scanNotifier.SendError(product, folderPath), nothing else, and leaves the
\* cache as it was.
C7_ErrorLeavesCache ==
    [][ FailedScanData(out')
        => ( /\ Len(out'.sent) = 1
             /\ out'.sent[1].kind = "SendError"
             /\ out'.sent[1].product = out'.processed[1].Product
             /\ out'.sent[1].target = path
             /\ out'.analytics = <<>>
             /\ cache' = cache ) ]_vars

C7_Witness ==
    /\ out.op = "ProcessResults"
    /\ FailedScanData(out)
    /\ out.processed[1].Issues # <<>>
    /\ out.processed[1].Product # ""
    /\ Len(out.sent) = 1

\* C8: a scan that ScanFolder or ScanFile started and that completed with an
\* error leaves the folder status as it was.
C8_FailedScanKeepsStatus ==
    [][ (out'.op \in ScanOps /\ FailedScanData(out')) => status' = status ]_vars

\* the operations that write Unscanned to the status
StatusResettingOps ==
    {"ClearScannedStatus", "SetStatus", "ClearDiagnosticsFromFile",
     "ClearDiagnosticsFromPathRecursively"}

\* C9: a new Folder is Unscanned with an empty cache; after ScanFolder on a
\* trusted folder whose scan succeeded the folder is Scanned; and a Scanned
\* folder stays Scanned until a status-resetting operation runs.
C9_ScannedUntilReset ==
    /\ [](out.op = "NewFolder" => (~IsScanned /\ cache = EmptyMap))
    /\ [][ /\ ( /\ out'.op = "ScanFolder"
                /\ IsTrusted
                /\ Len(out'.processed) = 1
                /\ ~out'.processed[1].Err )
              => status' = Scanned
           /\ (status = Scanned /\ status' # Scanned)
              => out'.op \in StatusResettingOps ]_vars

C9_Witness ==
    /\ out.op = "ScanFolder"
    /\ out.trusted
    /\ Len(out.processed) = 1
    /\ ~out.processed[1].Err
    /\ cache # EmptyMap
    /\ IsScanned

\* C10: ClearDiagnosticsFromFile(path) removes the entry of path and no
\* other, calls ClearInlineValues(path) when the Scanner provides inline
\* values, sends one diagnostics notification for path with an empty list,
\* and leaves the status Unscanned, whether or not path had an entry.
C10_ClearDiagnosticsFromFile ==
    [][ out'.op = "ClearDiagnosticsFromFile"
        => ( /\ DOMAIN cache' = (DOMAIN cache) \ {out'.arg}
             /\ \A key \in DOMAIN cache' : cache'[key] = cache[key]
             /\ out'.inlineCleared = IF hasInlineValues THEN <<out'.arg>> ELSE <<>>
             /\ Len(out'.sent) = 1
             /\ out'.sent[1].kind = "publishDiagnostics"
             /\ out'.sent[1].target = PathToUri(out'.arg)
             /\ out'.sent[1].payload = <<>>
             /\ status' = Unscanned ) ]_vars

C10_Witness ==
    /\ out.op = "ClearDiagnosticsFromFile"
    /\ out.inlineCleared = <<out.arg>>
    /\ cache # EmptyMap
    /\ Len(out.sent) = 1


\* the messages of kind `kind` among `sent` that are addressed to `target`
SentTo(sent, kind, target) ==
    { n \in 1..Len(sent) : sent[n].kind = kind /\ sent[n].target = target }

\* C11: ClearDiagnostics leaves the cache with zero entries and sends
\* exactly one diagnostics notification with an empty list for each path
\* that had an entry before the call, and nothing else.
C11_ClearDiagnostics ==
    [][ out'.op = "ClearDiagnostics"
        => ( /\ DOMAIN cache' = {}
             /\ Len(out'.sent) = Cardinality(DOMAIN cache)
             /\ \A n \in 1..Len(out'.sent) :
                    /\ out'.sent[n].kind = "publishDiagnostics"
                    /\ out'.sent[n].payload = <<>>
             /\ \A key \in DOMAIN cache :
                    Cardinality(SentTo(out'.sent, "publishDiagnostics", PathToUri(key))) = 1 ) ]_vars

C11_Witness ==
    /\ out.op = "ClearDiagnostics"
    /\ DOMAIN cache = {}
    /\ Len(out.sent) = 2
    /\ out.sent[1].target # out.sent[2].target

\* C12: after ClearDiagnostics() or ClearDiagnosticsFromPathRecursively of
\* the folder's root path on a folder whose status is Scanned, IsScanned()
\* is false.
C12_ClearResetsStatus ==
    [][ ( /\ IsScanned
          /\ \/ out'.op = "ClearDiagnostics"
             \/ out'.op = "ClearDiagnosticsFromPathRecursively" /\ out'.arg = path )
        => ~IsScanned' ]_vars

\* C13: after ScanFile(path) on a folder whose status is Scanned, the
\* status is Unscanned.
C13_ScanFileResetsStatus ==
    [][ (IsScanned /\ out'.op = "ScanFile") => status' = Unscanned ]_vars

\* the elements of s at the positions K, in the order of s
SubSeqAt(s, K) ==
    [i \in 1..Cardinality(K) |->
        s[CHOOSE n \in K : Cardinality({ m \in K : m < n }) = i - 1]]

\* the positions of `issues` that hold an issue of another type than removedType
PlacesOfOtherTypes(issues, removedType) ==
    { n \in 1..Len(issues) : GetFilterableIssueType(issues[n]) # removedType }

\* C14: ClearDiagnosticsByIssueType(T) removes from every entry exactly the
\* issues of type T and keeps the others in their order, sends one
\* diagnostics notification for each file whose number of issues changed
\* and none for any other file; called on a cache without an issue of type
\* T, as a second call with the same T is, it changes nothing and sends
\* nothing.
C14_ClearDiagnosticsByIssueType ==
    [][ out'.op = "ClearDiagnosticsByIssueType"
        => LET removedType == out'.arg[1]
               changed == { key \in DOMAIN cache : Len(cache'[key]) # Len(cache[key]) }
               diagnostics == { n \in 1..Len(out'.sent) :
                                  out'.sent[n].kind = "publishDiagnostics" }
           IN  /\ DOMAIN cache' = DOMAIN cache
               /\ \A key \in DOMAIN cache :
                      cache'[key] = SubSeqAt(cache[key],
                                             PlacesOfOtherTypes(cache[key], removedType))
               /\ Cardinality(diagnostics) = Cardinality(changed)
               /\ \A key \in changed :
                      Cardinality(SentTo(out'.sent, "publishDiagnostics", PathToUri(key))) = 1
               /\ (\A key \in DOMAIN cache :
                      PlacesOfOtherTypes(cache[key], removedType) = 1..Len(cache[key]))
                  => (cache' = cache /\ out'.sent = <<>>) ]_vars

C14_Witness ==
    /\ out.op = "ClearDiagnosticsByIssueType"
    /\ Cardinality(DOMAIN cache) = 2
    /\ \E key \in DOMAIN cache :
           /\ cache[key] # <<>>
           /\ SentTo(out.sent, "publishDiagnostics", PathToUri(key)) # {}
    /\ \E key \in DOMAIN cache :
           /\ cache[key] # <<>>
           /\ SentTo(out.sent, "publishDiagnostics", PathToUri(key)) = {}

\* the severities the configuration shows
VisibleSeverities ==
    (IF config.filterSeverity.Critical THEN {Critical} ELSE {})
    \cup (IF config.filterSeverity.High THEN {High} ELSE {})
    \cup (IF config.filterSeverity.Medium THEN {Medium} ELSE {})
    \cup (IF config.filterSeverity.Low THEN {Low} ELSE {})

\* the issue types the configuration displays
EnabledIssueTypes ==
    { t \in DOMAIN config.displayableIssueTypes : config.displayableIssueTypes[t] }

\* C15: FilterIssues returns the issues of its input whose severity is
\* visible and whose filterable type is enabled, in the order of the input;
\* with only Critical and High visible and every type enabled, these are
\* the Critical and High issues of the input.
C15_FilterIssues ==
    out.op = "FilterIssues"
    => /\ out.result =
              SubSeqAt(out.arg,
                       { n \in 1..Len(out.arg) :
                           /\ out.arg[n].Severity \in VisibleSeverities
                           /\ GetFilterableIssueType(out.arg[n]) \in EnabledIssueTypes })
       /\ ( /\ config.filterSeverity = CriticalAndHigh
            /\ \A n \in 1..Len(out.arg) :
                   GetFilterableIssueType(out.arg[n]) \in EnabledIssueTypes )
          => out.result =
                 SubSeqAt(out.arg, { n \in 1..Len(out.arg) :
                                       out.arg[n].Severity \in {Critical, High} })

C15_Witness ==
    /\ out.op = "FilterIssues"
    /\ config.filterSeverity = CriticalAndHigh
    /\ config.displayableIssueTypes = AllTypes
    /\ { out.arg[n].Severity : n \in 1..Len(out.arg) } = Severities
    /\ \A n \in 1..Len(out.arg) : GetFilterableIssueType(out.arg[n]) \in EnabledIssueTypes
    /\ Len(out.result) = 2
    /\ out.result[1].Severity = High
    /\ out.result[2].Severity = Critical

\* the places of `issues` whose issue the configuration shows
ShownPlaces(issues) ==
    { n \in 1..Len(issues) :
        /\ issues[n].Severity \in VisibleSeverities
        /\ GetFilterableIssueType(issues[n]) \in EnabledIssueTypes }

ScanResultKinds == {"SendSuccess", "SendSuccessForAllProducts"}

\* C16: FilterAndPublishCachedDiagnostics sends, for every file with a
\* cache entry, exactly one diagnostics notification (holding the issues of
\* the entry that pass the filter, an empty list when none does) and
\* exactly one hover document, and exactly one scan-result notification,
\* and nothing else.
C16_PublishPerFile ==
    [][ out'.op = "FilterAndPublishCachedDiagnostics"
        => /\ \A key \in DOMAIN cache :
                  /\ Cardinality(SentTo(out'.sent, "publishDiagnostics", PathToUri(key))) = 1
                  /\ Cardinality(SentTo(out'.sent, "hover", PathToUri(key))) = 1
                  /\ \A n \in SentTo(out'.sent, "publishDiagnostics", PathToUri(key)) :
                         out'.sent[n].payload =
                             ToDiagnostics(SubSeqAt(cache[key], ShownPlaces(cache[key])))
           /\ Cardinality({ n \in 1..Len(out'.sent) :
                              out'.sent[n].kind \in ScanResultKinds }) = 1
           /\ Len(out'.sent) = 2 * Cardinality(DOMAIN cache) + 1 ]_vars

C16_Witness ==
    /\ out.op = "FilterAndPublishCachedDiagnostics"
    /\ Cardinality(DOMAIN cache) = 2
    /\ \E key \in DOMAIN cache :
           /\ cache[key] # <<>>
           /\ \E n \in SentTo(out.sent, "publishDiagnostics", PathToUri(key)) :
                  out.sent[n].payload = <<>>
    /\ \E key \in DOMAIN cache :
           \E n \in SentTo(out.sent, "publishDiagnostics", PathToUri(key)) :
               out.sent[n].payload # <<>>

\* in `sent`, every message of a kind in `first` comes before every message
\* of a kind in `second`
AllBefore(sent, first, second) ==
    \A i, j \in 1..Len(sent) :
        (sent[i].kind \in first /\ sent[j].kind \in second) => i < j

\* C17 as stated: within one FilterAndPublishCachedDiagnostics call the
\* diagnostics notifications of all files come first, then the hover
\* documents of all files, then the scan-result notification.
C17_HoversBeforeScanResult ==
    [][ out'.op = "FilterAndPublishCachedDiagnostics"
        => /\ AllBefore(out'.sent, {"publishDiagnostics"}, {"hover"})
           /\ AllBefore(out'.sent, {"hover"}, ScanResultKinds)
           /\ AllBefore(out'.sent, {"publishDiagnostics"}, ScanResultKinds) ]_vars

\* C17 amended: within one FilterAndPublishCachedDiagnostics call the
\* diagnostics notifications of all files come first, then the scan-result
\* notification, then the hover documents of all files: no hover document
\* is sent before the scan-result notification of the same call.
C17_ScanResultBeforeHovers ==
    [][ out'.op = "FilterAndPublishCachedDiagnostics"
        => /\ AllBefore(out'.sent, {"publishDiagnostics"}, ScanResultKinds)
           /\ AllBefore(out'.sent, ScanResultKinds, {"hover"})
           /\ AllBefore(out'.sent, {"publishDiagnostics"}, {"hover"}) ]_vars

C17_Witness ==
    /\ out.op = "FilterAndPublishCachedDiagnostics"
    /\ Len(out.sent) = 5
    /\ out.sent[2].kind = "publishDiagnostics"
    /\ out.sent[3].kind \in ScanResultKinds
    /\ out.sent[4].kind = "hover"

\* C18: with a hover channel whose receiver has taken no document, a
\* goroutine that waits in a hover send has sent the diagnostics
\* notification of every file its operation owes one to, in
\* FilterAndPublishCachedDiagnostics and in ClearDiagnosticsByIssueType: no
\* diagnostics notification waits behind a hover document.
C18_HoverDoesNotStallDiagnostics ==
    \A g \in Callbacks :
        (out = NoOut /\ BlockedOnHover(g))
        => \A target \in local[g].due :
               SentTo(local[g].sent, "publishDiagnostics", target) # {}

\* C19: ScanFolder on a trusted folder calls Scanner.Scan exactly once,
\* whatever the cache holds, an entry keyed by the folder path included.
C19_ScanFolderAlwaysScans ==
    [][ (out'.op = "ScanFolder" /\ IsTrusted) => Len(out'.scanCalls) = 1 ]_vars

\* C20: when ScanFolder has called the Scanner and leaves the status
\* Scanned, the Scanner's completion callback processResults has run for
\* that scan, also with a Scanner that calls back after Scan returned.
C20_ScannedAfterCallback ==
    [][ ( /\ out'.op = "ScanFolder"
          /\ Len(out'.scanCalls) = 1
          /\ status' = Scanned )
        => ( /\ Len(out'.processed) = 1
             /\ \A cb \in Callbacks : pc'[cb] = "scheduled" => pc[cb] = "scheduled" ) ]_vars

\* s starts with the characters of t
StartsWith(s, t) ==
    \E rest \in { SubSeq(s, k, Len(s)) : k \in 1..(Len(s) + 1) } : s = t \o rest

\* C21: IsTrusted returns true when the trust feature is disabled; when it
\* is enabled, it returns true if and only if at least one configured
\* trusted folder is a prefix of the folder's path.
C21_IsTrusted ==
    out.op = "IsTrusted"
    => /\ ~config.trustEnabled => out.result = <<TRUE>>
       /\ config.trustEnabled
          => out.result = << \E trusted \in config.trustedFolders : StartsWith(path, trusted) >>

\* trusted under "/p" although "/o" and "/p/s/x" are configured too
C21_Witness ==
    /\ out.op = "IsTrusted"
    /\ config.trustEnabled
    /\ config.trustedFolders = { TrustedRoot, OtherRoot, <<"/", "p", "/", "s", "/", "x">> }
    /\ out.result = <<TRUE>>

\* t occurs in s as a run of consecutive characters
OccursIn(t, s) ==
    \E i \in 0..Len(s) : \E j \in i..Len(s) : SubSeq(s, i + 1, j) = t

\* C22: ClearDiagnosticsFromPathRecursively(rootPath) removes exactly the
\* entries whose key contains rootPath, sends one diagnostics notification
\* with an empty list for each of them and nothing else, and leaves every
\* other entry present with its contents.
C22_ClearRecursively ==
    [][ out'.op = "ClearDiagnosticsFromPathRecursively"
        => LET matching == { key \in DOMAIN cache : OccursIn(out'.arg, key) }
           IN  /\ DOMAIN cache' = (DOMAIN cache) \ matching
               /\ \A key \in DOMAIN cache' : cache'[key] = cache[key]
               /\ Len(out'.sent) = Cardinality(matching)
               /\ \A n \in 1..Len(out'.sent) :
                      /\ out'.sent[n].kind = "publishDiagnostics"
                      /\ out'.sent[n].payload = <<>>
               /\ \A key \in matching :
                      Cardinality(SentTo(out'.sent, "publishDiagnostics", PathToUri(key))) = 1 ]_vars

\* "s/a" cleared the entry of /p/s/a and left the entry of /p/s/b
C22_Witness ==
    /\ out.op = "ClearDiagnosticsFromPathRecursively"
    /\ out.arg = <<"s", "/", "a">>
    /\ Len(out.sent) = 1
    /\ DOMAIN cache = {FileB}
    /\ cache[FileB] # <<>>

\* the key an issue's product is aggregated under
AggregationKey(product) == IF product = "" THEN "unknown" ELSE product

AggregationKeys == { AggregationKey(issue.Product) : issue \in IssueUniverse }

\* the counter of the severity s in a SeverityCount value
CounterOf(count, s) ==
    CASE s = Critical -> count.Critical
      [] s = High -> count.High
      [] s = Medium -> count.Medium
      [] s = Low -> count.Low

\* the places of the issues that `after` holds beyond those of `before`
AppendedPlaces(before, after) ==
    UNION { { <<key, n>> :
                n \in ((IF key \in DOMAIN before THEN Len(before[key]) ELSE 0) + 1)
                          ..Len(after[key]) } :
            key \in DOMAIN after }

\* the operation that has just run handed one error-free ScanData to processResults
ProcessedScanData(o) == Len(o.processed) = 1 /\ ~o.processed[1].Err

\* C23: after an error-free processResults(data), for each product p (an
\* empty product being counted as "unknown") and each severity s,
\* data.SeverityCount[p][s] is the number of issues with product p and
\* severity s that the call appended to the cache; issues whose identity
\* was cached before add nothing.
C23_CountsNewIssuesOnly ==
    [][ ProcessedScanData(out')
        => \A p \in AggregationKeys, s \in Severities :
               CounterOf(CountOf(out'.SeverityCount, p), s)
                   = Cardinality({ place \in AppendedPlaces(cache, cache') :
                                     /\ AggregationKey(cache'[place[1]][place[2]].Product) = p
                                     /\ cache'[place[1]][place[2]].Severity = s }) ]_vars

\* a batch of two issues, one of them known before: one is counted
C23_Witness ==
    /\ out.op = "ProcessResults"
    /\ ProcessedScanData(out)
    /\ Len(out.processed[1].Issues) = 2
    /\ out.processed[1].Issues[1] # out.processed[1].Issues[2]
    /\ \E p \in AggregationKeys :
           /\ \E s \in Severities : CounterOf(CountOf(out.SeverityCount, p), s) = 1
           /\ \A q \in AggregationKeys \ {p}, s \in Severities :
                  CounterOf(CountOf(out.SeverityCount, q), s) = 0
           /\ Cardinality({ s \in Severities : CounterOf(CountOf(out.SeverityCount, p), s) # 0 }) = 1

\* C24: FilterAndPublishCachedDiagnostics(product) with a non-empty product
\* sends SendSuccess(product, folderPath, issues) where every issue of the
\* payload has that product and the payload holds the filtered cached
\* issues of the product; with an empty product it sends
\* SendSuccessForAllProducts(folderPath, issues) with the filtered issues
\* of all products.
C24_ScanResultOfProduct ==
    [][ out'.op = "FilterAndPublishCachedDiagnostics"
        => \A n \in 1..Len(out'.sent) :
               out'.sent[n].kind \in ScanResultKinds
               => LET product == out'.arg[1]
                      payload == out'.sent[n].payload
                      Shown(key) == { cache[key][i] : i \in ShownPlaces(cache[key]) }
                      filtered == UNION { Shown(key) : key \in DOMAIN cache }
                  IN  /\ out'.sent[n].target = path
                      /\ out'.sent[n].kind = IF product # "" THEN "SendSuccess"
                                             ELSE "SendSuccessForAllProducts"
                      /\ product # ""
                         => /\ out'.sent[n].product = product
                            /\ \A i \in 1..Len(payload) : payload[i].Product = product
                            /\ { payload[i] : i \in 1..Len(payload) }
                                   = { issue \in filtered : issue.Product = product }
                      /\ product = ""
                         => { payload[i] : i \in 1..Len(payload) } = filtered ]_vars

\* the view of the cache c under the configuration in force: per file, the
\* diagnostics of the issues it shows
PublishedView(c) ==
    [key \in DOMAIN c |-> ToDiagnostics(SubSeqAt(c[key], ShownPlaces(c[key])))]

\* the diagnostics the messages `sent` carry, per file
SentView(c, sent) ==
    [key \in DOMAIN c |->
        LET n == CHOOSE n \in SentTo(sent, "publishDiagnostics", PathToUri(key)) : TRUE
        IN  sent[n].payload]

\* C25: FilterAndPublishCachedDiagnostics leaves the cache as it is, calls
\* no Scanner and publishes the view of the cache under the configuration
\* in force at the call; a change of the configuration leaves the cache as
\* it is and calls no Scanner, so that publishes before and after it show
\* the same cache contents under the two configurations.
C25_FilterAtPublishTime ==
    [][ /\ out'.op = "FilterAndPublishCachedDiagnostics"
           => /\ cache' = cache
              /\ config' = config
              /\ out'.scanCalls = <<>>
              /\ SentView(cache, out'.sent) = PublishedView(cache)
        /\ config' # config
           => /\ cache' = cache
              /\ out'.scanCalls = <<>>
              /\ out'.sent = <<>> ]_vars

\* a publish of a cache with issues the configuration hides, among issues it shows
C25_Witness ==
    /\ out.op = "FilterAndPublishCachedDiagnostics"
    /\ config.filterSeverity # AllVisible
    /\ \E key \in DOMAIN cache :
           /\ SentView(cache, out.sent)[key] # <<>>
           /\ SentView(cache, out.sent)[key] # ToDiagnostics(cache[key])

\* C26: a goroutine that is about to read or write Folder.status holds the
\* folder's mutex, in IsScanned, Status, SetStatus, ClearScannedStatus and
\* ScanFolder, so that no read of the status is pending together with a
\* write of it.
C26_StatusUnderMutex ==
    /\ \A g \in Callbacks : (ReadsStatus(g) \/ WritesStatus(g)) => local[g].holdsMutex
    /\ \A g, h \in Callbacks : ~(ReadsStatus(g) /\ WritesStatus(h))

\* C27: after an error-free processResults no key of the ScanData's
\* SeverityCount map is the empty string: an issue with an empty Product
\* that the call counts is counted under "unknown", and an empty ScanData
\* product is initialised as "unknown".
C27_NoEmptyAggregationKey ==
    [][ ProcessedScanData(out')
        => /\ "" \notin DOMAIN out'.SeverityCount
           /\ out'.processed[1].Product = "" => "unknown" \in DOMAIN out'.SeverityCount
           /\ \A place \in AppendedPlaces(cache, cache') :
                  LET issue == cache'[place[1]][place[2]]
                  IN  issue.Product = ""
                      => /\ "unknown" \in DOMAIN out'.SeverityCount
                         /\ CounterOf(out'.SeverityCount["unknown"], issue.Severity) >= 1 ]_vars

\* an issue with an empty product was counted, in a ScanData of a named product
C27_Witness ==
    /\ out.op = "ProcessResults"
    /\ ProcessedScanData(out)
    /\ out.processed[1].Product = "oss"
    /\ \E n \in 1..Len(out.processed[1].Issues) : out.processed[1].Issues[n].Product = ""
    /\ DOMAIN out.SeverityCount = {"unknown", "oss"}
    /\ out.SeverityCount["unknown"].Low = 1

\* the issues an entry holds
IssuesOf(c, key) == IF key \in DOMAIN c THEN { c[key][n] : n \in 1..Len(c[key]) } ELSE {}

\* C28: with interleaved processResults callbacks that each insert issues
\* of a file no other callback touches, no step removes an entry or an
\* issue from the cache, and when a callback has stored the entry for an
\* issue of its batch the entry holds that issue: after the callbacks have
\* finished every file has an entry with all the issues inserted for it.
C28_DisjointWritersLoseNothing ==
    [][ /\ \A key \in DOMAIN cache :
               /\ key \in DOMAIN cache'
               /\ Len(cache[key]) <= Len(cache'[key])
               /\ \A n \in 1..Len(cache[key]) : cache'[key][n] = cache[key][n]
        /\ \A cb \in Callbacks :
               (pc[cb] = "store" /\ pc'[cb] # "store")
               => Head(local[cb].data.Issues)
                      \in IssuesOf(cache', Head(local[cb].data.Issues).AffectedFilePath) ]_vars

\* every callback has finished and the entry of each file holds MaxBatch issues
C28_Witness ==
    /\ \A cb \in Callbacks :
           /\ pc[cb] = "idle"
           /\ IssuesOf(cache, FileOf(cb)) = { IssueOf(cb, n) : n \in 1..MaxBatch }
    /\ out.SeverityCount # EmptyMap

\* the cached list of a file, empty without an entry
CachedListOf(c, filePath) == IF filePath \in DOMAIN c THEN c[filePath] ELSE <<>>

\* C29: IssuesFor and AllIssuesFor change neither the cache nor the status and
\* send nothing; AllIssuesFor returns the cached list of the path, IssuesFor
\* the cached issues of the path whose range overlaps the requested range, in
\* cache order; a path without an entry gives the empty result
C29_LookupsReadOnly ==
    [][ out'.op \in {"IssuesFor", "AllIssuesFor"} =>
          LET filePath == out'.arg[1]
              cached == CachedListOf(cache, filePath)
          IN  /\ cache' = cache
              /\ status' = status
              /\ out'.sent = <<>>
              /\ out'.scanCalls = <<>>
              /\ out'.analytics = <<>>
              /\ out'.op = "AllIssuesFor" => out'.result = cached
              /\ out'.op = "IssuesFor" =>
                     out'.result =
                         SelectSeq(cached, LAMBDA issue : Overlaps(issue.Range, out'.arg[2]))
              /\ filePath \notin DOMAIN cache => out'.result = <<>> ]_vars

\* IssuesFor has returned some, but not all, of the cached issues of a file
C29_Witness ==
    /\ out.op = "IssuesFor"
    /\ out.arg[1] \in DOMAIN cache
    /\ out.result # <<>>
    /\ Len(out.result) < Len(cache[out.arg[1]])

\* C30: ScanFile(path) on a trusted folder whose cache holds a non-empty
\* entry for path leaves every cache entry as it was, counts no newly
\* inserted issue, calls no Scanner, and publishes the diagnostics of the
\* cache as it is (one notification per file) and one scan-result
\* notification.
C30_CacheHitReplay ==
    [][ ( /\ out'.op = "ScanFile"
          /\ out'.trusted
          /\ out'.arg \in DOMAIN cache
          /\ cache[out'.arg] # <<>> )
        => /\ cache' = cache
           /\ out'.scanCalls = <<>>
           /\ \A p \in AggregationKeys, s \in Severities :
                  CounterOf(CountOf(out'.SeverityCount, p), s) = 0
           /\ \A key \in DOMAIN cache :
                  Cardinality(SentTo(out'.sent, "publishDiagnostics", PathToUri(key))) = 1
           /\ SentView(cache, out'.sent) = PublishedView(cache)
           /\ Cardinality({ n \in 1..Len(out'.sent) :
                              out'.sent[n].kind \in ScanResultKinds }) = 1 ]_vars

\* a ScanFile that replayed a cached entry of two issues beside another file's entry
C30_Witness ==
    /\ out.op = "ScanFile"
    /\ out.trusted
    /\ out.scanCalls = <<>>
    /\ Len(out.processed) = 1
    /\ out.processed[1].Issues = cache[out.arg]
    /\ Len(cache[out.arg]) = 2
    /\ Cardinality(DOMAIN cache) = 2
    /\ Len(out.sent) = 5

\* the cache `after` holds every entry of `before`, each with the issues it
\* had at the places they had
KeepsEveryIssue(before, after) ==
    \A key \in DOMAIN before :
        /\ key \in DOMAIN after
        /\ Len(before[key]) <= Len(after[key])
        /\ \A n \in 1..Len(before[key]) : after[key][n] = before[key][n]

ClearOperations ==
    {"ClearDiagnostics", "ClearDiagnosticsFromFile",
     "ClearDiagnosticsFromPathRecursively", "ClearDiagnosticsByIssueType"}

\* C31: processResults, called back by a Scanner or run by ScanFile or
\* ScanFolder, keeps every file key of the cache and every cached issue at
\* its place in its entry; an entry or an issue leaves the cache only in
\* ClearDiagnostics, ClearDiagnosticsFromFile,
\* ClearDiagnosticsFromPathRecursively or ClearDiagnosticsByIssueType.
C31_ProcessResultsOnlyGrows ==
    [][ /\ out'.op \in {"ProcessResults", "ScanFile", "ScanFolder"}
           => KeepsEveryIssue(cache, cache')
        /\ ~KeepsEveryIssue(cache, cache') => out'.op \in ClearOperations ]_vars

\* an error-free processResults of one issue has appended it behind the
\* issue of another identity that the entry of its file held before
C31_Witness ==
    /\ out.op = "ProcessResults"
    /\ ProcessedScanData(out)
    /\ Len(out.processed[1].Issues) = 1
    /\ \E key \in DOMAIN cache :
           /\ Len(cache[key]) = 2
           /\ cache[key][2] = out.processed[1].Issues[1]
           /\ getUniqueIssueID(cache[key][1]) # getUniqueIssueID(cache[key][2])
    /\ Cardinality(DOMAIN cache) = 2

\* C32: in every reachable state, each issue the cache holds under the key k
\* has AffectedFilePath = k.
C32_KeyConsistency ==
    \A k \in DOMAIN cache :
        \A n \in 1..Len(cache[k]) : cache[k][n].AffectedFilePath = k

\* ClearDiagnosticsByIssueType has shortened an entry of a cache that holds
\* issues under two keys
C32_Witness ==
    /\ out.op = "ClearDiagnosticsByIssueType"
    /\ out.sent # <<>>
    /\ Cardinality(DOMAIN cache) = 2
    /\ \A k \in DOMAIN cache : cache[k] # <<>>
    /\ \E k \in DOMAIN cache : Len(cache[k]) = 2
====
